---- MODULE Spec2Model ----
(***************************************************************************)
(* Model of streamlit_ts001.py: one run of the script per user interaction *)
(* (upload, widget change).  A run loads the CSV, filters the Bolivia      *)
(* rows, builds the multi-panel grid (one loop step per selected           *)
(* variable), shows the detail view of one variable (time series, growth   *)
(* rates, moving-average slider) and builds the download table (one loop   *)
(* step per selected variable).  Any exception inside the try block ends   *)
(* the run in the top-level except, which reports it with st.error.        *)
(*                                                                         *)
(* Floating point values are modelled as extended rationals <<"f", n, d>>: *)
(* d > 0 is the finite value n/d in lowest terms, <<"f", 0, 0>> is NaN,    *)
(* <<"f", 1, 0>> is +inf and <<"f", -1, 0>> is -inf.  Rounding is not      *)
(* modelled.                                                               *)
(***************************************************************************)
EXTENDS Integers, Sequences, FiniteSets, TLC

\* ------------------------------------------------------------------ bounds
\* Number of year columns the model reads (the script reads 70: 1950..2019).
NumYears == 6
\* Largest number of rows in a multi-row dataset.
MaxRows == 2

\* --------------------------------------------------------------- constants
\* range(1950, 2020): first year column
FirstYear == 1950
\* st.slider("Plots per row:", 1, 3, 2)
MinColsPerRow == 1
MaxColsPerRow == 3
\* st.slider("Moving average window (years):", 2, min(15, n-1), 5)
WindowMin == 2
WindowCap == 15
WindowDefault == 5

BOLIVIA == "Bolivia (Plurinational State of)"
\* a country cell that differs from BOLIVIA only by case
OtherCountry == "bolivia (plurinational state of)"

\* ------------------------------------------------------------------ floats
NaN == <<"f", 0, 0>>
PosInf == <<"f", 1, 0>>
NegInf == <<"f", -1, 0>>
Num(n) == <<"f", n, 1>>
\* numerator and denominator
N(x) == x[2]
D(x) == x[3]

IsNaN(x) == x = NaN
IsInf(x) == D(x) = 0 /\ N(x) # 0
IsFinite(x) == D(x) > 0

Sign(n) == IF n > 0 THEN 1 ELSE IF n < 0 THEN -1 ELSE 0
Abs(n) == IF n < 0 THEN -n ELSE n

RECURSIVE GCD(_, _)
GCD(a, b) == IF b = 0 THEN a ELSE GCD(b, a % b)

\* n/d as a float: lowest terms, positive denominator; x/0 is +-inf, 0/0 NaN
Norm(n, d) ==
    IF d = 0 THEN <<"f", Sign(n), 0>>
    ELSE LET g == GCD(Abs(n), Abs(d))
             s == Sign(d)
         IN  <<"f", (s * n) \div g, (s * d) \div g>>

\* IEEE division x / y
FDiv(x, y) ==
    IF IsNaN(x) \/ IsNaN(y) THEN NaN
    ELSE IF IsInf(x) /\ IsInf(y) THEN NaN
    ELSE IF IsInf(y) THEN Num(0)
    ELSE IF IsInf(x) THEN <<"f", N(x) * (IF N(y) < 0 THEN -1 ELSE 1), 0>>
    ELSE Norm(N(x) * D(y), D(x) * N(y))

\* IEEE subtraction x - y
FSub(x, y) ==
    IF IsNaN(x) \/ IsNaN(y) THEN NaN
    ELSE IF IsInf(x) /\ IsInf(y) THEN (IF x = y THEN NaN ELSE x)
    ELSE IF IsInf(x) THEN x
    ELSE IF IsInf(y) THEN <<"f", -N(y), 0>>
    ELSE Norm(N(x) * D(y) - N(y) * D(x), D(x) * D(y))

\* IEEE multiplication x * y
FMul(x, y) ==
    IF IsNaN(x) \/ IsNaN(y) THEN NaN
    ELSE IF IsInf(x) \/ IsInf(y)
         THEN <<"f", Sign(N(x)) * Sign(N(y)), 0>>
    ELSE Norm(N(x) * N(y), D(x) * D(y))

\* ----------------------------------------------------------------- strings
\* A Python str is a sequence of characters.
LowerChar(c) == CASE c = "G" -> "g" [] c = "K" -> "k" [] OTHER -> c
\* str.lower()
Lower(s) == [i \in DOMAIN s |-> LowerChar(s[i])]
\* f in v, for two str
IsSubstring(f, v) ==
    \E off \in 0..(Len(v) - Len(f)) :
        \A i \in 1..Len(f) : v[off + i] = f[i]

\* A 'Variable name' cell: a str, or the float nan read_csv gives a blank cell
StrName(s) == [t |-> "str", s |-> s]
\* the name of the first column of the download table
YearName == StrName(<<"Y", "e", "a", "r">>)
NanName == [t |-> "nan", s |-> <<>>]
\* elementwise == of a column against a value: nan equals nothing
NameEq(a, b) == a.t = "str" /\ b.t = "str" /\ a.s = b.s
\* identity as Series.unique() sees it: all nan are one value
SameName(a, b) == a = b

\* ------------------------------------------------------------ year columns
\* year_columns = [str(year) for year in range(1950, 2020)], as positions 1..N
YearIdx == 1..NumYears
\* the label of year column i; the str tag marks the Python type of the label
YearLabel(i) == <<"str", FirstYear + i - 1>>
\* label i of a RangeIndex
RangeLabel(i) == <<"int", i>>
year_columns == [i \in YearIdx |-> YearLabel(i)]

\* pd.to_numeric(cell, errors='coerce') of one CSV cell
ToNumeric(c) ==
    CASE c = "0" -> Num(0)
      [] c = "1" -> Num(1)
      [] c = "2" -> Num(2)
      [] c = "3" -> Num(3)
      [] OTHER -> NaN

\* ----------------------------------------------------------------- dataset
\* A CSV as pd.read_csv returns it: the columns present and the rows in file
\* order.  A row holds its Country cell, its 'Variable name' cell and one raw
\* cell per year column.
CompleteHeader == [country |-> TRUE, varname |-> TRUE, years |-> YearIdx]
Headers ==
    { CompleteHeader,
      [CompleteHeader EXCEPT !.country = FALSE],
      [CompleteHeader EXCEPT !.varname = FALSE],
      [CompleteHeader EXCEPT !.years = YearIdx \ {NumYears}] }

\* the series whose first two cells are a and b and whose other cells are t
SeriesOf(a, b, t) ==
    [i \in YearIdx |-> IF i = 1 THEN a ELSE IF i = 2 THEN b ELSE t]

HeadCells == {"", "n/a", "0", "1", "2", "3"}
TailCells == {"", "2"}
RichSeries == {SeriesOf(a, b, t) : a \in HeadCells, b \in HeadCells, t \in TailCells}
CoarseSeries ==
    { SeriesOf("", "", ""), SeriesOf("", "n/a", "2"), SeriesOf("1", "3", "2") }

MkRow(c, n, s) == [Country |-> c, Name |-> n, cells |-> s]
RichRows == {MkRow(BOLIVIA, StrName(<<"G">>), s) : s \in RichSeries}
CoarseRows ==
    {MkRow(BOLIVIA, StrName(<<"G">>), s) : s \in CoarseSeries}
    \cup {\* a second variable, whose name differs in case only
          MkRow(BOLIVIA, StrName(<<"g">>), SeriesOf("1", "3", "2")),
          \* a row without a variable name
          MkRow(BOLIVIA, NanName, SeriesOf("1", "3", "2")),
          \* a row of another country
          MkRow(OtherCountry, StrName(<<"G">>), SeriesOf("1", "3", "2")),
          \* a variable that is itself named Year
          MkRow(BOLIVIA, YearName, SeriesOf("1", "3", "2"))}

\* every one-row dataset over the rich series, and every dataset of up to
\* MaxRows rows over the coarse rows
RowSeqs ==
    {<<r>> : r \in RichRows}
    \cup UNION {[1..n -> CoarseRows] : n \in 0..MaxRows}
Datasets == {[header |-> h, rows |-> rs] : h \in Headers, rs \in RowSeqs}

Filters == {<<>>, <<"g">>}

\* ------------------------------------------------------------ pandas helpers
RECURSIVE TrueIdx(_, _)
\* the positions i >= from of the boolean sequence mask, ascending, with mask[i]
TrueIdx(mask, from) ==
    IF from > Len(mask) THEN <<>>
    ELSE (IF mask[from] THEN <<from>> ELSE <<>>) \o TrueIdx(mask, from + 1)

\* df[df['Country'] == 'Bolivia (Plurinational State of)']
FilterCountry(rows) == SelectSeq(rows, LAMBDA r : r.Country = BOLIVIA)

RECURSIVE Unique(_)
\* Series.unique(): the distinct values in order of first appearance
Unique(seq) ==
    IF seq = <<>> THEN <<>>
    ELSE LET rest == Unique(SubSeq(seq, 1, Len(seq) - 1))
             x == seq[Len(seq)]
         IN  IF \E i \in DOMAIN rest : SameName(rest[i], x)
             THEN rest ELSE Append(rest, x)

\* df_bolivia['Variable name'].unique()
VariableNames(df_bolivia) ==
    Unique([i \in DOMAIN df_bolivia |-> df_bolivia[i].Name])

\* [v for v in variable_names if variable_filter.lower() in v.lower()]
FilterVariables(names, f) ==
    SelectSeq(names, LAMBDA v : IsSubstring(Lower(f), Lower(v.s)))

\* v.lower() of a float nan raises AttributeError
FilterRaises(names, f) ==
    f # <<>> /\ \E i \in DOMAIN names : names[i].t = "nan"

\* sequences of distinct elements of seq, in any order (st.multiselect)
Selections(seq) ==
    LET S == {seq[i] : i \in DOMAIN seq}
    IN  {q \in UNION {[1..n -> S] : n \in 0..Len(seq)} :
            \A i, j \in DOMAIN q : i # j => q[i] # q[j]}

\* df_bolivia[df_bolivia['Variable name'] == variable_name]
FilterVariable(df_bolivia, variable_name) ==
    SelectSeq(df_bolivia, LAMBDA r : NameEq(r.Name, variable_name))

\* mutant of YearsMissing: only the year columns present are read, so no label
\* is ever missing
YearsMissing_Ignored(header) == FALSE

\* row[year_columns] raises KeyError when a label is not a column
YearsMissing(header) == header.years # YearIdx

\* pd.to_numeric(row[year_columns], errors='coerce'): a Series indexed by the
\* year labels
NumericSeries(row) ==
    [index |-> year_columns,
     values |-> [i \in YearIdx |-> ToNumeric(row.cells[i])]]

\* mutant of ValidMask: np.isnan(variable_data) without the negation
ValidMask_Negated(data) == [i \in DOMAIN data.values |-> IsNaN(data.values[i])]

\* ~np.isnan(variable_data), as a sequence of booleans by position (the
\* script reads valid_mask[i] by position)
ValidMask(data) == [i \in DOMAIN data.values |-> ~IsNaN(data.values[i])]

\* [year_columns[i] for i in range(len(year_columns)) if valid_mask[i]]
ValidYears(mask) ==
    LET keep == TrueIdx(mask, 1)
    IN  [k \in DOMAIN keep |-> year_columns[keep[k]]]

\* variable_data[valid_mask]: boolean indexing keeps labels and order
ValidData(data, mask) ==
    LET keep == TrueIdx(mask, 1)
    IN  [index |-> [k \in DOMAIN keep |-> data.index[keep[k]]],
         values |-> [k \in DOMAIN keep |-> data.values[keep[k]]]]

\* mutant of Iloc0: iloc[-1], the last of the matching rows
Iloc_Last(df_variable) == df_variable[Len(df_variable)]

\* df_variable.iloc[0]: the first of the matching rows
Iloc0(df_variable) == df_variable[1]

\* mutant of PctChange: the ratio data / data.shift(1), without the - 1
PctChange_Ratio(series) ==
    [index |-> series.index,
     values |-> [k \in DOMAIN series.values |->
                    IF k = 1 THEN NaN
                    ELSE FDiv(series.values[k], series.values[k - 1])]]

\* Series.pct_change(): data / data.shift(1) - 1; the first entry has no
\* predecessor and is NaN
PctChange(series) ==
    [index |-> series.index,
     values |-> [k \in DOMAIN series.values |->
                    IF k = 1 THEN NaN
                    ELSE FSub(FDiv(series.values[k], series.values[k - 1]), Num(1))]]

\* series * 100
Times100(series) ==
    [index |-> series.index,
     values |-> [k \in DOMAIN series.values |-> FMul(series.values[k], Num(100))]]

\* Series.dropna(): drops the NaN entries (and only those: inf is kept)
DropNa(series) == ValidData(series, ValidMask(series))

\* growth_rates = valid_series.pct_change() * 100, then dropna()
GrowthRates(valid_series) == DropNa(Times100(PctChange(valid_series)))

Min(a, b) == IF a < b THEN a ELSE b
\* the max_value of the moving-average slider
WindowMax(n) == Min(WindowCap, n - 1)
\* st.slider(label, min_value, max_value, value) raises StreamlitAPIException
\* unless min_value <= value <= max_value
SliderRaises(lo, hi, value) == ~(lo <= value /\ value <= hi)

\* pd.DataFrame({'Year': year_columns}): a RangeIndex 0..N-1 and one column
YearFrame ==
    [index |-> [k \in YearIdx |-> RangeLabel(k - 1)],
     names |-> <<YearName>>,
     data |-> <<year_columns>>]

\* Series.reindex(index): the value at each label of index, NaN where the
\* series has no such label
Reindex(series, index) ==
    [k \in DOMAIN index |->
        IF \E j \in DOMAIN series.index : series.index[j] = index[k]
        THEN series.values[CHOOSE j \in DOMAIN series.index : series.index[j] = index[k]]
        ELSE NaN]

\* mutant of SetColumn: frame.insert(1, name, series), the new column placed
\* right after Year
SetColumn_First(frame, name, series) ==
    LET col == Reindex(series, frame.index)
    IN  [frame EXCEPT !.names = <<Head(@), name>> \o Tail(@),
                      !.data = <<Head(@), col>> \o Tail(@)]

\* frame[name] = series: the series is aligned on the frame's index, then
\* stored in the existing column of that name or appended as a new last column
SetColumn(frame, name, series) ==
    LET col == Reindex(series, frame.index)
    IN  IF \E c \in DOMAIN frame.names : frame.names[c] = name
        THEN [frame EXCEPT !.data[CHOOSE c \in DOMAIN frame.names : frame.names[c] = name] = col]
        ELSE [frame EXCEPT !.names = Append(@, name), !.data = Append(@, col)]

\* -------------------------------------------------------------------- state
VARIABLES
    pc,                  \* where the run is: start, grid, download, done, error
    df,                  \* the uploaded dataset
    variable_filter,     \* st.text_input
    selected_variables,  \* st.multiselect, or filtered_variables when empty
    cols_per_row,        \* st.slider("Plots per row:"); 0 while unbound
    num_rows,
    gi,                  \* grid loop: position of the next variable
    row_num, col_num,
    traces,              \* traces added to fig, in order
    chart,               \* st.plotly_chart(fig) was reached
    selected_var_detail, \* st.selectbox
    detail,              \* what the detail view showed
    di,                  \* download loop: position of the next variable
    download_data,
    download_offered,    \* st.download_button was reached
    extracted,           \* history: every series read from a row, per site
    errors,              \* the exceptions reported by st.error in this run
    info                 \* st.info of the no-file branch is shown

vars == <<pc, df, variable_filter, selected_variables, cols_per_row, num_rows,
          gi, row_num, col_num, traces, chart, selected_var_detail, detail,
          di, download_data, download_offered, extracted, errors, info>>

inputVars == <<df, variable_filter, selected_variables, cols_per_row, num_rows>>
gridVars == <<gi, row_num, col_num, traces>>
downloadVars == <<di, download_data, download_offered>>

Finished == {"done", "error"}
NoName == [t |-> "none", s |-> <<>>]
EmptySeries == [index |-> <<>>, values |-> <<>>]
EmptyFrame == [index |-> <<>>, names |-> <<>>, data |-> <<>>]
EmptyDataset == [header |-> CompleteHeader, rows |-> <<>>]
NoDetail ==
    [state |-> "none", x |-> <<>>, y |-> EmptySeries,
     growth_made |-> FALSE, growth |-> EmptySeries,
     slider_made |-> FALSE, lo |-> 0, hi |-> 0, window_size |-> 0]

df_bolivia == FilterCountry(df.rows)

\* A run starts from an empty page: every element the previous run drew is
\* replaced, and the script's variables are unbound.
FreshPage ==
    /\ df' = EmptyDataset /\ info' = FALSE /\ errors' = <<>>
    /\ variable_filter' = <<>> /\ selected_variables' = <<>>
    /\ cols_per_row' = 0 /\ num_rows' = 0
    /\ gi' = 1 /\ row_num' = 1 /\ col_num' = 1 /\ traces' = <<>>
    /\ chart' = FALSE
    /\ selected_var_detail' = NoName /\ detail' = NoDetail
    /\ di' = 1 /\ download_data' = EmptyFrame /\ download_offered' = FALSE
    /\ extracted' = {}

\* except Exception as e: st.error(...)
Raise(kind) == pc' = "error" /\ errors' = Append(errors, kind)

Init ==
    /\ pc = "start" /\ df = EmptyDataset /\ info = FALSE
    /\ variable_filter = <<>> /\ selected_variables = <<>>
    /\ cols_per_row = 0 /\ num_rows = 0
    /\ gi = 1 /\ row_num = 1 /\ col_num = 1 /\ traces = <<>>
    /\ chart = FALSE
    /\ selected_var_detail = NoName /\ detail = NoDetail
    /\ di = 1 /\ download_data = EmptyFrame /\ download_offered = FALSE
    /\ extracted = {} /\ errors = <<>>

\* ------------------------------------------------------------------ actions
\* The user uploads or removes a file, or changes a widget: Streamlit runs
\* the script again from its first line.  The script keeps nothing between
\* runs (no session state, no module-level cache).
Rerun ==
    /\ pc \in Finished
    /\ pc' = "start"
    /\ FreshPage

\* The widgets were not reached: the script's names for them stay unbound.
NoWidgets == UNCHANGED <<variable_filter, selected_variables, cols_per_row, num_rows>>

outputVars == <<gi, row_num, col_num, traces, chart, selected_var_detail, detail,
                di, download_data, download_offered, extracted, info>>

\* (len(selected_variables) + cols_per_row - 1) // cols_per_row
NumRows(n, cpr) == (n + cpr - 1) \div cpr

\* make_subplots raises ValueError unless rows is an int greater than 0
SubplotsRaises(rows) == rows <= 0

\* A run of the script with an uploaded file, lines 21-84: read_csv, the
\* Bolivia filter, the widgets and the subplot grid.  ds, f, cpr and sel are
\* the user's inputs (file, filter text, plots per row, multiselect).
Load(ds, f, cpr) ==
    /\ pc = "start"
    /\ df' = ds
    /\ UNCHANGED outputVars
    /\ LET bol == FilterCountry(ds.rows)
           variable_names == VariableNames(bol)
           filtered_variables ==
               IF f # <<>> THEN FilterVariables(variable_names, f)
               ELSE variable_names
       IN  \/ \* df['Country']: KeyError
              /\ ~ds.header.country
              /\ NoWidgets /\ pc' = "error" /\ errors' = <<"KeyError">>
           \/ \* df_bolivia['Variable name']: KeyError
              /\ ds.header.country /\ ~ds.header.varname
              /\ NoWidgets /\ pc' = "error" /\ errors' = <<"KeyError">>
           \/ \* v.lower() of a nan variable name: AttributeError
              /\ ds.header.country /\ ds.header.varname
              /\ FilterRaises(variable_names, f)
              /\ variable_filter' = f
              /\ UNCHANGED <<selected_variables, cols_per_row, num_rows>>
              /\ pc' = "error" /\ errors' = <<"AttributeError">>
           \/ /\ ds.header.country /\ ds.header.varname
              /\ ~FilterRaises(variable_names, f)
              /\ \E sel \in Selections(filtered_variables) :
                    LET selected == IF sel = <<>> THEN filtered_variables ELSE sel
                        rows == NumRows(Len(selected), cpr)
                        \* selected_variables is the ndarray of unique()
                        is_array == sel = <<>> /\ f = <<>>
                    IN  /\ variable_filter' = f /\ selected_variables' = selected
                        /\ cols_per_row' = cpr /\ num_rows' = rows
                        /\ \/ \* make_subplots(rows=0, ...): ValueError
                              /\ SubplotsRaises(rows)
                              /\ pc' = "error" /\ errors' = <<"ValueError">>
                           \/ \* make_subplots tests the truth of subplot_titles,
                              \* which numpy refuses for an ndarray of two or
                              \* more elements; whether the installed plotly
                              \* does so cannot be read from the script
                              /\ ~SubplotsRaises(rows)
                              /\ is_array /\ Len(selected) >= 2
                              /\ pc' = "error" /\ errors' = <<"ValueError">>
                           \/ /\ ~SubplotsRaises(rows)
                              /\ pc' = "grid" /\ errors' = <<>>

\* A run of the script without a file, lines 308-321.
NoFile ==
    /\ pc = "start"
    /\ info' = TRUE
    /\ pc' = "done"
    /\ UNCHANGED <<inputVars, gridVars, chart, selected_var_detail, detail,
                   downloadVars, extracted, errors>>

\* the entry of the extraction history for one read of a row
Extraction(site, name, data) == [site |-> site, name |-> name, data |-> data.values]

\* fig.add_trace(..., row, col) raises unless the cell is in the grid
CellOutside(r, c) == r < 1 \/ r > num_rows \/ c < 1 \/ c > cols_per_row

\* One iteration of the grid loop, lines 86-129.
GridStep ==
    /\ pc = "grid" /\ gi <= Len(selected_variables)
    /\ LET variable_name == selected_variables[gi]
           df_variable == FilterVariable(df_bolivia, variable_name)
           variable_data == NumericSeries(Iloc0(df_variable))
           valid_mask == ValidMask(variable_data)
           valid_years == ValidYears(valid_mask)
           valid_data == ValidData(variable_data, valid_mask)
       IN  \/ \* df_variable.empty: nothing is done for this variable
              /\ df_variable = <<>>
              /\ gi' = gi + 1
              /\ UNCHANGED <<pc, errors, row_num, col_num, traces, extracted>>
           \/ \* a year column is missing: KeyError
              /\ df_variable # <<>> /\ YearsMissing(df.header)
              /\ Raise("KeyError")
              /\ UNCHANGED <<gridVars, extracted>>
           \/ \* no valid data: continue
              /\ df_variable # <<>> /\ ~YearsMissing(df.header)
              /\ Len(valid_data.values) = 0
              /\ gi' = gi + 1
              /\ extracted' = extracted \cup {Extraction("grid", variable_name, variable_data)}
              /\ UNCHANGED <<pc, errors, row_num, col_num, traces>>
           \/ \* add the trace at (row_num, col_num) and move to the next cell
              /\ df_variable # <<>> /\ ~YearsMissing(df.header)
              /\ Len(valid_data.values) > 0
              /\ extracted' = extracted \cup {Extraction("grid", variable_name, variable_data)}
              /\ IF CellOutside(row_num, col_num)
                 THEN Raise("Exception") /\ UNCHANGED gridVars
                 ELSE /\ traces' = Append(traces,
                            [name |-> variable_name, row |-> row_num, col |-> col_num,
                             x |-> valid_years, y |-> valid_data.values])
                      /\ IF col_num = cols_per_row
                         THEN col_num' = 1 /\ row_num' = row_num + 1
                         ELSE col_num' = col_num + 1 /\ row_num' = row_num
                      /\ gi' = gi + 1
                      /\ UNCHANGED <<pc, errors>>
    /\ UNCHANGED <<inputVars, chart, selected_var_detail, detail, downloadVars, info>>

\* The end of the grid loop and the detail view, lines 131-284: the grid is
\* shown, the user picks one variable and, when the moving-average slider is
\* created, a window.
Detail ==
    /\ pc = "grid" /\ gi > Len(selected_variables)
    /\ chart' = TRUE
    /\ \E d \in {selected_variables[i] : i \in DOMAIN selected_variables} :
        LET df_var_detail == FilterVariable(df_bolivia, d)
            var_data == NumericSeries(Iloc0(df_var_detail))
            valid_mask == ValidMask(var_data)
            valid_years == ValidYears(valid_mask)
            valid_data == ValidData(var_data, valid_mask)
            n == Len(valid_data.values)
            \* pd.Series(valid_data.values, index=valid_years)
            valid_series == [index |-> valid_years, values |-> valid_data.values]
            shown == [NoDetail EXCEPT !.state = "shown", !.x = valid_years,
                                      !.y = valid_data,
                                      !.growth_made = n > 1,
                                      !.growth = IF n > 1 THEN GrowthRates(valid_series)
                                                 ELSE EmptySeries]
            lo == WindowMin
            hi == WindowMax(n)
        IN  /\ selected_var_detail' = d
            /\ \/ \* df_var_detail.empty: the detail view shows nothing
                  /\ df_var_detail = <<>>
                  /\ detail' = [NoDetail EXCEPT !.state = "notfound"]
                  /\ pc' = "download"
                  /\ UNCHANGED <<errors, extracted>>
               \/ \* st.warning("No valid data available ...")
                  /\ df_var_detail # <<>> /\ n = 0
                  /\ IF YearsMissing(df.header)
                     THEN Raise("KeyError") /\ UNCHANGED <<detail, extracted>>
                     ELSE /\ detail' = [NoDetail EXCEPT !.state = "warning"]
                          /\ extracted' = extracted \cup {Extraction("detail", d, var_data)}
                          /\ pc' = "download"
                          /\ UNCHANGED errors
               \/ \* one or two valid values: no moving-average slider
                  /\ df_var_detail # <<>> /\ n > 0 /\ ~(n > 2)
                  /\ IF YearsMissing(df.header)
                     THEN Raise("KeyError") /\ UNCHANGED <<detail, extracted>>
                     ELSE /\ detail' = shown
                          /\ extracted' = extracted \cup {Extraction("detail", d, var_data)}
                          /\ pc' = "download"
                          /\ UNCHANGED errors
               \/ \* st.slider refuses its default: StreamlitAPIException,
                  \* after the time series and growth charts were drawn
                  /\ df_var_detail # <<>> /\ n > 2
                  /\ ~YearsMissing(df.header)
                  /\ SliderRaises(lo, hi, WindowDefault)
                  /\ detail' = [shown EXCEPT !.lo = lo, !.hi = hi]
                  /\ extracted' = extracted \cup {Extraction("detail", d, var_data)}
                  /\ Raise("StreamlitAPIException")
               \/ \* the slider is created; the user's window is within it
                  /\ df_var_detail # <<>> /\ n > 2
                  /\ ~YearsMissing(df.header)
                  /\ ~SliderRaises(lo, hi, WindowDefault)
                  /\ \E w \in lo..hi :
                        detail' = [shown EXCEPT !.slider_made = TRUE, !.lo = lo,
                                                !.hi = hi, !.window_size = w]
                  /\ extracted' = extracted \cup {Extraction("detail", d, var_data)}
                  /\ pc' = "download"
                  /\ UNCHANGED errors
    /\ download_data' = (IF pc' = "download" THEN YearFrame ELSE download_data)
    /\ UNCHANGED <<inputVars, gridVars, di, download_offered, info>>

\* One iteration of the download loop, lines 292-295.
DownloadStep ==
    /\ pc = "download" /\ di <= Len(selected_variables)
    /\ LET variable_name == selected_variables[di]
           df_variable == FilterVariable(df_bolivia, variable_name)
           data == NumericSeries(Iloc0(df_variable))
       IN  \/ \* df_variable.empty: no column for this variable
              /\ df_variable = <<>>
              /\ di' = di + 1
              /\ UNCHANGED <<pc, errors, download_data, extracted>>
           \/ \* download_data[variable_name] = pd.to_numeric(...)
              /\ df_variable # <<>>
              /\ IF YearsMissing(df.header)
                 THEN Raise("KeyError") /\ UNCHANGED <<di, download_data, extracted>>
                 ELSE /\ download_data' = SetColumn(download_data, variable_name, data)
                      /\ extracted' = extracted \cup {Extraction("download", variable_name, data)}
                      /\ di' = di + 1
                      /\ UNCHANGED <<pc, errors>>
    /\ UNCHANGED <<inputVars, gridVars, chart, selected_var_detail, detail,
                   download_offered, info>>

\* The end of the download loop, lines 297-304: to_csv and st.download_button.
DownloadButton ==
    /\ pc = "download" /\ di > Len(selected_variables)
    /\ download_offered' = TRUE
    /\ pc' = "done"
    /\ UNCHANGED <<inputVars, gridVars, chart, selected_var_detail, detail,
                   di, download_data, extracted, errors, info>>

\* The user's inputs to a run with a file.
Upload ==
    /\ pc = "start"
    /\ \E ds \in Datasets, f \in Filters, cpr \in MinColsPerRow..MaxColsPerRow :
          Load(ds, f, cpr)

Next ==
    \/ Upload
    \/ NoFile
    \/ Rerun
    \/ GridStep
    \/ Detail
    \/ DownloadStep
    \/ DownloadButton

Spec == Init /\ [][Next]_vars

\* sanity: the positions of a run, and at most one st.error per run
TypeOK ==
    /\ pc \in {"start", "grid", "download", "done", "error"}
    /\ Len(errors) <= 1
    /\ pc = "error" <=> Len(errors) = 1
    /\ pc \in {"grid", "download"} => cols_per_row \in MinColsPerRow..MaxColsPerRow

\* ---------------------------------------------------- vocabulary of the claims
\* row i of the dataset is a row of the selected country for variable v:
\* exact, case-sensitive equality of both strings
Matches(i, v) ==
    /\ df.rows[i].Country = BOLIVIA
    /\ v.t = "str" /\ df.rows[i].Name.t = "str" /\ df.rows[i].Name.s = v.s
HasMatch(v) == \E i \in DOMAIN df.rows : Matches(i, v)
\* the first matching row in dataset order
FirstMatch(v) ==
    df.rows[CHOOSE i \in DOMAIN df.rows :
                Matches(i, v) /\ \A j \in 1..(i - 1) : ~Matches(j, v)]
\* the numeric value of the source cell of variable v in year column i
CellValue(v, i) == ToNumeric(FirstMatch(v).cells[i])
\* the year columns of v that hold a number
ValidCols(v) == {i \in YearIdx : ~IsNaN(CellValue(v, i))}
Range(seq) == {seq[k] : k \in DOMAIN seq}
Ascending(x) == \A j, k \in DOMAIN x : j < k => x[j][2] < x[k][2]
\* the raw series displayed: years x against values y
Displayed ==
    {[name |-> traces[k].name, x |-> traces[k].x, y |-> traces[k].y] : k \in DOMAIN traces}
    \cup (IF detail.state = "shown"
          THEN {[name |-> selected_var_detail, x |-> detail.x, y |-> detail.y.values]}
          ELSE {})

C2_GrowthRate ==
    detail.growth_made =>
        LET x == detail.x
            v == detail.y.values
            g == detail.growth
            Has(k) == \E j \in DOMAIN g.index : g.index[j] = x[k]
            At(k) == g.values[CHOOSE j \in DOMAIN g.index : g.index[j] = x[k]]
        IN  /\ \A j \in DOMAIN g.values : IsFinite(g.values[j])
            /\ Range(g.index) \subseteq Range(x)
            /\ ~Has(1)
            /\ \A k \in 2..Len(x) :
                  IF v[k - 1] = Num(0) THEN ~Has(k)
                  ELSE /\ Has(k)
                       /\ At(k) = FMul(FDiv(FSub(v[k], v[k - 1]), v[k - 1]), Num(100))

\* C3 as stated (refuted by the code): once the download is offered, the
\* column of every found variable holds, in the row of each year, the numeric
\* value of the source cell, and is missing only where the source cell is.
C3_ExportRoundTrip ==
    download_offered =>
        \A c \in 2..Len(download_data.names) :
            \A i \in YearIdx :
                \E r \in DOMAIN download_data.index :
                    /\ download_data.data[1][r] = YearLabel(i)
                    /\ download_data.data[c][r] = CellValue(download_data.names[c], i)

\* a selected variable that fails: no row for it, or no number in any year
Failing(v) == ~HasMatch(v) \/ ValidCols(v) = {}
HasData(v) == HasMatch(v) /\ ValidCols(v) # {}
Selected == Range(selected_variables)
Plotted(v) == \E k \in DOMAIN traces : traces[k].name = v
HasColumn(v) == \E c \in DOMAIN download_data.names : download_data.names[c] = v

\* C4 as stated (refuted by the code, through the slider of C10): when a run
\* whose grid was drawn has ended and some selected variable failed, every
\* selected variable with a valid value was plotted and has its column in the
\* download table that is offered.
C4_FailureIsolation ==
    (pc \in Finished /\ chart /\ \E f \in Selected : Failing(f)) =>
        \A v \in Selected :
            HasData(v) => Plotted(v) /\ HasColumn(v) /\ download_offered

\* the page a run starts from
PageEmpty ==
    /\ errors = <<>> /\ ~info /\ ~chart /\ traces = <<>>
    /\ detail = NoDetail /\ selected_var_detail = NoName
    /\ download_data = EmptyFrame /\ ~download_offered
    /\ selected_variables = <<>> /\ df = EmptyDataset /\ extracted = {}

\* the dataset lacks a column the run read
LacksColumn ==
    \/ ~df.header.country
    \/ ~df.header.varname
    \/ /\ df.header.years # YearIdx
       /\ \E v \in Selected : HasMatch(v)

\* C5: a run on a dataset lacking the Country column, the Variable name column
\* or a year column it reads ends with exactly one error reported, no chart,
\* no trace, no detail view and no download table; and every run starts from
\* the empty page, so nothing of the failed run is left for the next.
C5_Malformed ==
    /\ (pc \in Finished /\ LacksColumn) =>
          /\ pc = "error" /\ Len(errors) = 1
          /\ ~chart /\ traces = <<>> /\ detail.state = "none"
          /\ download_data = EmptyFrame /\ ~download_offered
    /\ pc = "start" => PageEmpty

\* C5 witness: a run that read a row of a dataset without its last year column
\* has ended in the error.
C5_Witness ==
    /\ pc = "error" /\ errors = <<"KeyError">>
    /\ df.header.country /\ df.header.varname /\ df.header.years # YearIdx
    /\ \E v \in Selected : HasMatch(v)

\* the series read from the first matching row of v
FirstMatchData(v) == [i \in YearIdx |-> CellValue(v, i)]
ReadAt(site, v) == \E e \in extracted : e.site = site /\ e.name = v

C6_State ==
    /\ \A e \in extracted : HasMatch(e.name) /\ e.data = FirstMatchData(e.name)
    /\ \A k \in 1..(gi - 1) :
          /\ ReadAt("grid", selected_variables[k]) <=> HasMatch(selected_variables[k])
          /\ Plotted(selected_variables[k]) => HasMatch(selected_variables[k])
    /\ \A k \in 1..(di - 1) :
          /\ ReadAt("download", selected_variables[k]) <=> HasMatch(selected_variables[k])
          /\ HasColumn(selected_variables[k]) <=> HasMatch(selected_variables[k])
    /\ detail.state # "none" =>
          /\ ReadAt("detail", selected_var_detail) <=> HasMatch(selected_var_detail)
          /\ detail.state = "notfound" <=> ~HasMatch(selected_var_detail)

C6_Step ==
    /\ (pc = "grid" /\ gi <= Len(selected_variables)
        /\ ~HasMatch(selected_variables[gi]))
          => pc' = "grid" /\ gi' = gi + 1 /\ errors' = errors /\ traces' = traces
    /\ (pc = "download" /\ di <= Len(selected_variables)
        /\ ~HasMatch(selected_variables[di]))
          => pc' = "download" /\ di' = di + 1 /\ errors' = errors
             /\ download_data' = download_data

\* C6: at the grid, the detail view and the download, the series of a variable
\* is read from the first row, in dataset order, whose Country and Variable
\* name equal the selected country and the variable exactly (case-sensitive);
\* later matching rows are ignored; a variable without a matching row is read
\* nowhere, gets no trace, no detail series and no column, and the step that
\* meets it raises nothing and goes on to the next variable.
C6_RowSelection == [](C6_State) /\ [][C6_Step]_vars

\* C6 witness: a finished run whose dataset holds two rows of the country for
\* the same variable with different cells, and a row whose name differs only
\* by case or whose country differs only by case; the variable was read at all
\* three sites.
C6_Witness ==
    /\ pc = "done"
    /\ \E v \in Selected :
          /\ ReadAt("grid", v) /\ ReadAt("detail", v) /\ ReadAt("download", v)
          /\ \E i, j \in DOMAIN df.rows :
                /\ i < j /\ Matches(i, v) /\ Matches(j, v)
                /\ df.rows[i].cells # df.rows[j].cells

\* the valid values of v are one nonzero value in consecutive years
ConstantRun(v) ==
    LET V == ValidCols(v)
    IN  /\ V # {}
        /\ \A i, j \in V : \A m \in i..j : m \in V
        /\ \A i, j \in V : CellValue(v, i) = CellValue(v, j)
        /\ \A i \in V : CellValue(v, i) # Num(0)

\* C7: when the detail view shows a series holding one nonzero value in N
\* consecutive years and nothing else, the growth-rate output has N-1 entries,
\* one for each of those years but the first, all equal to 0 (for N = 1 there
\* is no growth-rate output).
C7_ConstantGrowth ==
    (detail.state = "shown" /\ ConstantRun(selected_var_detail)) =>
        LET V == ValidCols(selected_var_detail)
            first == CHOOSE i \in V : \A j \in V : i <= j
            g == detail.growth
        IN  /\ Len(g.values) = Cardinality(V) - 1
            /\ Len(g.index) = Len(g.values)
            /\ Range(g.index) = {YearLabel(i) : i \in V \ {first}}
            /\ Ascending(g.index)
            /\ \A k \in DOMAIN g.values : g.values[k] = Num(0)
            /\ detail.growth_made <=> Cardinality(V) > 1

\* C7 witness: growth rates were computed for a constant series of at least
\* three years that starts after a missing year.
C7_Witness ==
    /\ detail.state = "shown" /\ detail.growth_made
    /\ ConstantRun(selected_var_detail)
    /\ Cardinality(ValidCols(selected_var_detail)) >= 3
    /\ 1 \notin ValidCols(selected_var_detail)

CountryName == StrName(<<"C", "o", "u", "n", "t", "r", "y">>)
\* the selected variables that have a row, in the order of selected_variables
FoundSelected == SelectSeq(selected_variables, HasMatch)

PositionOf(v) == (CHOOSE k \in DOMAIN selected_variables : selected_variables[k] = v) - 1

\* C9 as stated (refuted by the code): every trace is in the cell of its
\* variable's position, the cell that carries the variable's title, inside
\* the grid.
C9_GridPlacement ==
    \A j \in DOMAIN traces :
        LET k == PositionOf(traces[j].name)
        IN  /\ traces[j].row = (k \div cols_per_row) + 1
            /\ traces[j].col = (k % cols_per_row) + 1
            /\ 1 <= traces[j].row /\ traces[j].row <= num_rows
            /\ 1 <= traces[j].col /\ traces[j].col <= cols_per_row

\* C10 as stated (refuted by the code): once the detail view shows a series of
\* n > 2 valid values, the slider exists with 2 <= 5 <= min(15, n-1), its
\* window lies in [2, n-1], and no StreamlitAPIException was reported.
C10_WindowBounds ==
    (detail.state = "shown" /\ Len(detail.x) > 2) =>
        /\ detail.slider_made
        /\ detail.lo = WindowMin /\ detail.hi = Min(WindowCap, Len(detail.x) - 1)
        /\ detail.lo <= WindowDefault /\ WindowDefault <= detail.hi
        /\ detail.lo <= detail.window_size /\ detail.window_size <= Len(detail.x) - 1
        /\ "StreamlitAPIException" \notin Range(errors)
====
